---- MODULE Spec2Model ----
(***************************************************************************)
(* CURASENSE cross-check enrichment pipeline.                              *)
(*                                                                         *)
(*   apps/api/main.py                      triage (the HTTP handler)       *)
(*   apps/api/services/crosscheck.py       CrossChecker                    *)
(*   apps/api/services/dbpedia_service.py  DBPediaService (cache + SPARQL) *)
(*   apps/api/services/nlp.py              SymptomNLP.rank (the ranker)    *)
(*                                                                         *)
(* The model follows one run of the service: the startup pre-warm of the   *)
(* cache, then one triage request.                                         *)
(*                                                                         *)
(* Strings are sequences of one-character strings, so that strip() and     *)
(* lower() are computed.  Scores are integers in tenths (final_score,      *)
(* severity_score) and thousandths (risk_score).  Time is in seconds since *)
(* the epoch, as time.time() gives it.                                     *)
(***************************************************************************)
EXTENDS Integers, Sequences, FiniteSets, TLC

\* ------------------------------------------------------------------ bounds
\* SymptomNLP.top_k in the model: the length the ranker cuts its list to.
MaxN == 2
\* The number of coroutines that use the cache file of one key at a time.
NumProcs == 2

\* --------------------------------------------------------------- constants
\* DBPediaService.__init__: cache_ttl = 60*60*24*30 seconds.
cache_ttl == 60 * 60 * 24 * 30
\* CrossChecker.__init__: dbpedia_min_score = 0.6, in tenths.
dbpedia_min_score == 6
\* The reading of time.time() when the process starts (seconds since epoch).
StartTime == 1700 * 1000 * 1000
\* The constructor arguments <<top_k, top_m>> the model explores: those of
\* main.py, the defaults, and a top_k that cuts the ranker's list.
Configs == { <<10, 1>>, <<10, 2>>, <<1, 1>> }

\* ----------------------------------------------------------------- strings
Min(a, b) == IF a <= b THEN a ELSE b
Max(a, b) == IF a >= b THEN a ELSE b

\* str.lower() on one character.
LowerChar(c) ==
    CASE c = "F" -> "f"
      [] c = "L" -> "l"
      [] c = "U" -> "u"
      [] c = "C" -> "c"
      [] c = "G" -> "g"
      [] c = "R" -> "r"
      [] OTHER -> c

\* str.lower()
Lower(s) == [i \in 1..Len(s) |-> LowerChar(s[i])]

\* str.strip(): drop leading and trailing whitespace.
RECURSIVE LStrip(_)
LStrip(s) == IF s # << >> /\ Head(s) = " " THEN LStrip(Tail(s)) ELSE s
RECURSIVE RStrip(_)
RStrip(s) ==
    IF s # << >> /\ s[Len(s)] = " " THEN RStrip(SubSeq(s, 1, Len(s) - 1)) ELSE s
Strip(s) == RStrip(LStrip(s))

\* ----------------------------------------------------------- knowledge base
None == [kind |-> "None"]

\* The records load_kb() returns: one condition with an alias.
kb_list ==
    << [name |-> <<"F", "l", "u">>,
        aliases |-> << <<"G", "r">> >>,
        severity_score |-> 7] >>

\* Mutant: a missing knowledge base loads as an empty one.
load_kb_empty_on_missing(src) ==
    [kind |-> "list", records |-> IF src = "missing" THEN << >> ELSE kb_list]

\* load_kb: the content of the first candidate path that exists, or
\* FileNotFoundError when none does.
load_kb(src) ==
    IF src = "missing" THEN [kind |-> "raise"]
    ELSE [kind |-> "list", records |-> kb_list]

\* CrossChecker.__init__: the name and every alias of every record,
\* stripped and lower-cased, map to the record; later records overwrite.
RECURSIVE AddAliases(_, _, _)
AddAliases(m, c, j) ==
    IF j > Len(c.aliases) THEN m
    ELSE LET a == c.aliases[j] IN
         AddAliases(IF a # << >>
                      THEN [k \in DOMAIN m \cup {Lower(Strip(a))} |->
                              IF k = Lower(Strip(a)) THEN c ELSE m[k]]
                      ELSE m,
                    c, j + 1)

RECURSIVE BuildKbByKey(_, _, _)
BuildKbByKey(kb, m, i) ==
    IF i > Len(kb) THEN m
    ELSE LET c == kb[i]
             name_key == Lower(Strip(c.name))
             m1 == IF name_key # << >>
                     THEN [k \in DOMAIN m \cup {name_key} |->
                             IF k = name_key THEN c ELSE m[k]]
                     ELSE m
         IN BuildKbByKey(kb, AddAliases(m1, c, 1), i + 1)

\* self.kb_by_key of a CrossChecker built on the records kb.
KbByKeyOf(kb) == BuildKbByKey(kb, [k \in {} |-> None], 1)

kb_by_key == KbByKeyOf(kb_list)

\* CrossChecker._lookup_kb_by_nlp_name, on the dictionary by_key.
LookupIn(by_key, nlp_name) ==
    IF nlp_name = << >> THEN None
    ELSE LET key == Lower(Strip(nlp_name)) IN
         IF key \in DOMAIN by_key THEN by_key[key] ELSE None

\* CrossChecker._lookup_kb_by_nlp_name
_lookup_kb_by_nlp_name(nlp_name) == LookupIn(kb_by_key, nlp_name)

\* -------------------------------------------------------------- risk score
\* Python's round(x): the nearest integer to n/d, ties to the even one.
RoundHalfEven(n, d) ==
    LET q == n \div d
        r == n % d
    IN  IF 2 * r < d THEN q
        ELSE IF 2 * r > d THEN q + 1
        ELSE IF q % 2 = 0 THEN q ELSE q + 1

\* CrossChecker._risk_score.  final_score and severity_score are in tenths,
\* the result is in thousandths:
\*   chronic_factor = 12/10 or 10/10, age_factor = (200 + max(0, age-50))/200,
\*   base = (6*final_score + 4*severity_score)/100,
\*   risk = min(1, base*chronic_factor*age_factor), rounded to 3 decimals.
_risk_score(final_score, severity_score, age, chronic_conditions) ==
    LET chronic_factor == IF chronic_conditions # << >> THEN 12 ELSE 10
        age_factor == 200 + Max(0, age - 50)
        base == 6 * final_score + 4 * severity_score
        risk == Min(200000, base * chronic_factor * age_factor)
    IN  RoundHalfEven(risk, 200)

\* ------------------------------------------------------------------- cache
NotMatched == [matched |-> FALSE]
\* The result of a query that yielded a binding: the direct query names the
\* resource after the condition, the label query takes the remote's ?s.
Matched(resource) == [matched |-> TRUE, resource |-> resource]

Absent == [kind |-> "absent"]
\* A file that json.load cannot parse, or that holds no JSON object.
Corrupt == [kind |-> "corrupt"]
\* A JSON object; has_ts / payload = None say which fields it lacks.
Json(has_ts, fetched_at, payload) ==
    [kind |-> "json", has_ts |-> has_ts, fetched_at |-> fetched_at,
     payload |-> payload]

\* Mutant: the key is made of the name as it is spelt.
KeyOf_as_spelt(condition_name) == <<"abstract:">> \o condition_name

\* lookup_abstract: key = f"abstract:{condition_name.strip().lower()}".
\* _cache_path hashes the key; the hash is taken to be injective.
KeyOf(condition_name) == <<"abstract:">> \o Lower(Strip(condition_name))

Raise == [kind |-> "raise"]

\* Mutant: an entry is stale from age = ttl on (>= for >).
_read_cache_ge(entry, t, io_ok) ==
    IF entry.kind = "absent" THEN None
    ELSE IF ~io_ok \/ entry.kind = "corrupt" THEN None
    ELSE IF t - (IF entry.has_ts THEN entry.fetched_at ELSE 0) >= cache_ttl
         THEN None
    ELSE entry.payload

\* Mutant: no try/except around the read, so a bad file raises.
_read_cache_unguarded(entry, t, io_ok) ==
    IF entry.kind = "absent" THEN None
    ELSE IF ~io_ok \/ entry.kind = "corrupt" THEN Raise
    ELSE IF t - (IF entry.has_ts THEN entry.fetched_at ELSE 0) > cache_ttl
         THEN None
    ELSE entry.payload

\* Mutant: the except clause answers a failed read with a negative result.
_read_cache_error_as_unmatched(entry, t, io_ok) ==
    IF entry.kind = "absent" THEN None
    ELSE IF ~io_ok \/ entry.kind = "corrupt" THEN NotMatched
    ELSE IF t - (IF entry.has_ts THEN entry.fetched_at ELSE 0) > cache_ttl
         THEN None
    ELSE entry.payload

\* DBPediaService._read_cache: the payload, or None for a missing file, a
\* file that cannot be opened or parsed, and a stale entry.
\* data.get("_fetched_at", 0) reads a missing stamp as 0.
_read_cache(entry, t, io_ok) ==
    IF entry.kind = "absent" THEN None
    ELSE IF ~io_ok \/ entry.kind = "corrupt" THEN None
    ELSE IF t - (IF entry.has_ts THEN entry.fetched_at ELSE 0) > cache_ttl
         THEN None
    ELSE entry.payload

\* What a cache write can do: "ok"; "open_failed" (open() raises, the file
\* is untouched); "dump_failed" (open() has truncated the file and
\* json.dump raises, the file is left unparsable).
WriteOutcomes == {"ok", "open_failed", "dump_failed"}

\* Mutant: results with matched = False are not written.
_write_cache_positive_only(c, key, payload, t, w) ==
    IF ~payload.matched THEN c
    ELSE IF w = "ok" THEN [c EXCEPT ![key] = Json(TRUE, t, payload)]
    ELSE IF w = "dump_failed" THEN [c EXCEPT ![key] = Corrupt]
    ELSE c

\* Mutant: the file is opened for appending, so a second object lands
\* behind the first and the file no longer parses.
_write_cache_append(c, key, payload, t, w) ==
    IF w = "ok"
      THEN [c EXCEPT ![key] = IF @.kind = "absent"
                                THEN Json(TRUE, t, payload) ELSE Corrupt]
    ELSE IF w = "dump_failed" THEN [c EXCEPT ![key] = Corrupt]
    ELSE c

\* DBPediaService._write_cache: the cache after the write; exceptions are
\* swallowed.
_write_cache(c, key, payload, t, w) ==
    IF w = "ok" THEN [c EXCEPT ![key] = Json(TRUE, t, payload)]
    ELSE IF w = "dump_failed" THEN [c EXCEPT ![key] = Corrupt]
    ELSE c

\* ------------------------------------------------------------------ remote
\* What one HTTP query can give: "data" (a binding), "empty" (no binding),
\* "error" (network error, timeout, HTTP error status or a body that is no
\* JSON), "malformed" (JSON of another shape than SPARQL results).
RemoteOutcomes == {"data", "empty", "error", "malformed"}

\* Mutant: no try/except in _sparql, the error reaches the caller.
_sparql_unguarded(out) == IF out = "error" THEN Raise ELSE [kind |-> out]

\* DBPediaService._sparql: the parsed response, or None on any exception.
_sparql(out) == IF out = "error" THEN None ELSE [kind |-> out]

\* ------------------------------------------------------------------ ranker
\* The condition names of the ranker's knowledge base, in its order: one
\* that is the name of a record of kb_list, one that differs from an alias
\* of it in case and surrounding blanks, one that kb_list does not know.
condition_names ==
    << <<"F", "l", "u">>, <<" ", "g", "R">>, <<"C", "o", "l", "d">> >>
RankNames == { condition_names[i] : i \in DOMAIN condition_names }
\* final_score = 0.7*d + 0.3*n of two cosine similarities, so it lies in
\* [-1, 1]; in tenths.
Scores == {-5, 4, 6}

\* sorted(..., reverse=True) is stable: x goes behind every entry whose
\* score is not lower.
RECURSIVE Insert(_, _)
Insert(l, x) ==
    IF l = << >> THEN << x >>
    ELSE IF Head(l).final_score >= x.final_score
           THEN << Head(l) >> \o Insert(Tail(l), x)
           ELSE << x >> \o l

RECURSIVE SortedUpTo(_, _)
SortedUpTo(scores, i) ==
    IF i = 0 THEN << >>
    ELSE Insert(SortedUpTo(scores, i - 1),
                [name |-> condition_names[i], final_score |-> scores[i]])

\* SymptomNLP.rank: one entry per condition with the final_score `scores`
\* gives it, sorted by final_score, highest first, cut to the ranker's own
\* top_k (MaxN here).
rank(scores) ==
    LET combined == SortedUpTo(scores, Len(condition_names))
    IN  SubSeq(combined, 1, Min(Len(combined), MaxN))

\* What the ranker call can return: [] (empty text, no knowledge base, an
\* encoding error), or the ranking for some scores.
RankOutputs ==
    { << >> } \cup { rank(sc) : sc \in [DOMAIN condition_names -> Scores] }

\* The exceptions a failing ranker call can raise, as triage tells them
\* apart: AttributeError, and any other Exception.
RankExceptions == {"AttributeError", "Exception"}

\* The patient context triage passes on: age and chronic_conditions.
\* analyze_async uses them only when it builds the results, and the model
\* draws them there.
Contexts == { [age |-> 30, chronic_conditions |-> << >>],
              [age |-> 90, chronic_conditions |-> << "asthma" >>] }

\* ------------------------------------------------------------ CrossChecker
\* Mutant: no truncation to top_k.
Truncate_none(l, k) == l

\* ranked[: self.top_k]
Truncate(l, k) == SubSeq(l, 1, Min(Len(l), k))

\* Mutant: `or` for `and` between the position and the score test.
Selected_or(idx, final_score, m) ==
    idx < m \/ final_score >= dbpedia_min_score

\* analyze_async: `self.dbpedia and idx < self.top_m and final_score >=
\* self.dbpedia_min_score` (idx counts from 0; the service is enabled).
Selected(idx, final_score, m) ==
    idx < m /\ final_score >= dbpedia_min_score

\* analyze_async: db_name = kb_item.get("name") if kb_item else name
DbName(name) ==
    LET kb_item == _lookup_kb_by_nlp_name(name)
    IN  IF kb_item # None THEN kb_item.name ELSE name

\* A lookup_abstract coroutine: pc is "new" (created, not yet run),
\* "direct" / "fallback" (waiting for that query's response), "done"
\* (returned `result`) or "raised".  io says whether the cache file could
\* be opened for the read, calls counts the HTTP queries sent, failed says
\* that every query answered so far ended in an error, outs lists what the
\* queries answered so far gave, wr is the outcome of the cache write.
NewTask(condition_name) ==
    [pc |-> "new", name |-> condition_name, io |-> TRUE, calls |-> 0,
     failed |-> TRUE, outs |-> << >>, wr |-> "none", result |-> None]

\* Mutant: the position test is dropped, every candidate at or above the
\* threshold gets a coroutine.
MakeTasks_by_score_only(rk, m) ==
    [i \in 1..Len(rk) |->
        IF rk[i].final_score >= dbpedia_min_score
          THEN NewTask(DbName(rk[i].name))
          ELSE None]

\* analyze_async, first loop: a coroutine per selected candidate, None
\* for the others.
MakeTasks(rk, m) ==
    [i \in 1..Len(rk) |->
        IF Selected(i - 1, rk[i].final_score, m)
          THEN NewTask(DbName(rk[i].name))
          ELSE None]

\* Mutant: the exception gather returned is stored as the lookup value.
DbMapEntry_keep_exception(t) ==
    IF t = None THEN None
    ELSE IF t.pc = "raised" THEN Raise
    ELSE t.result

\* analyze_async, second loop: db_map[i] is {"matched": False} for a
\* lookup that raised, its result otherwise, None for no lookup.
DbMapEntry(t) ==
    IF t = None THEN None
    ELSE IF t.pc = "raised" THEN NotMatched
    ELSE t.result

\* analyze_async: coros = [t for t in db_tasks if t is not None]; gather
\* returns the outcomes in the order of coros, whatever order they end in,
\* so a finished coroutine stands for its place in db_results.
Coros(tasks) == SelectSeq(tasks, LAMBDA t : t # None)

\* Mutant: res_ptr is not advanced.
RECURSIVE DbMapFrom_stuck_pointer(_, _, _, _)
DbMapFrom_stuck_pointer(tasks, db_results, i, res_ptr) ==
    IF i > Len(tasks) THEN << >>
    ELSE IF tasks[i] # None
      THEN << DbMapEntry(db_results[res_ptr]) >>
           \o DbMapFrom_stuck_pointer(tasks, db_results, i + 1, res_ptr)
      ELSE << None >>
           \o DbMapFrom_stuck_pointer(tasks, db_results, i + 1, res_ptr)

\* analyze_async, second loop, from db_tasks[i] on: db_map[i] is made of
\* db_results[res_ptr] for a coroutine, and res_ptr moves on; it is None
\* for a placeholder.  (Positions count from 1 here.)
RECURSIVE DbMapFrom(_, _, _, _)
DbMapFrom(tasks, db_results, i, res_ptr) ==
    IF i > Len(tasks) THEN << >>
    ELSE IF tasks[i] # None
      THEN << DbMapEntry(db_results[res_ptr]) >>
           \o DbMapFrom(tasks, db_results, i + 1, res_ptr + 1)
      ELSE << None >> \o DbMapFrom(tasks, db_results, i + 1, res_ptr)

DbMap(tasks) == DbMapFrom(tasks, Coros(tasks), 1, 1)

\* analyze_async, third loop: one record per ranked candidate, in order.
BuildResults(rk, tasks, a, chronic_conditions) ==
    [i \in 1..Len(rk) |->
        LET kb_item == _lookup_kb_by_nlp_name(rk[i].name)
            severity == IF kb_item # None THEN kb_item.severity_score ELSE 5
        IN  [name |-> rk[i].name,
             final_score |-> rk[i].final_score,
             kb |-> kb_item,
             risk_score |-> _risk_score(rk[i].final_score, severity, a,
                                        chronic_conditions),
             dbpedia |-> DbMap(tasks)[i]]]

\* triage: "conditions": enriched[:5]
Response(enriched) ==
    [status |-> "ok", conditions |-> SubSeq(enriched, 1, Min(Len(enriched), 5))]

\* ------------------------------------------------------------------ triage
\* Mutant: triage lets every failure of analyze_async through.
TriageOnException_reraise(kind, fallback_ok, fallback) == [status |-> "error"]

\* triage, the except clauses around analyze_async.  An AttributeError
\* leads to the synchronous CrossChecker.analyze, whose two
\* run_until_complete calls both raise RuntimeError inside the running
\* event loop, so the handler fails.  Any other Exception leads to
\* nlp_engine.rank(user_text)[:5], reduced to name and final_score (and
\* rationale), or to [] when that call raises too (fallback_ok is false).
TriageOnException(kind, fallback_ok, fallback) ==
    IF kind = "AttributeError" THEN [status |-> "error"]
    ELSE IF ~fallback_ok THEN [status |-> "ok", conditions |-> << >>]
    ELSE [status |-> "ok",
          conditions |->
            [i \in 1..Min(Len(fallback), 5) |->
               [name |-> fallback[i].name,
                final_score |-> fallback[i].final_score]]]

\* ------------------------------------------------------------------- state
VARIABLES
    top_k,       \* CrossChecker.top_k
    top_m,       \* CrossChecker.top_m
    now,         \* time.time()
    cache,       \* the files of CACHE_DIR, by cache key
    pc,          \* "startup", "crashed", "prewarm", "idle", where the request is
                 \* ("rank", "gather"), or "served"
    ctx,         \* the request's age and chronic_conditions
    ranked,      \* analyze_async: ranked, after truncation
    db_tasks,    \* the coroutines handed to gather (analyze_async: db_tasks;
                 \* prewarm_dbpedia: tasks), each with its state
    results,     \* analyze_async: the list it returned
    analyze,     \* "none", "returned" or "raised": how analyze_async ended
    rank_exc,    \* the exception the ranker call raised, or "none"
    resp,        \* triage: the response, or None
    calls,       \* lookup_abstract calls, HTTP queries and cache writes
                 \* since the gather began
    cache0,      \* the cache when the pre-warm or the request began
    neg_at,      \* by key: when a lookup last ended {matched: False} after
                 \* querying the remote, or -1
    neg0,        \* neg_at when the pre-warm or the request began
    rank_out,    \* what the ranker call returned, before truncation
    eval_a,      \* the latest evaluation of _risk_score: its arguments
                 \* and its value, or None
    eval_b,      \* the evaluation before that, or None
    kb_source,   \* "present" or "missing": whether load_kb finds a file
    co,          \* the coroutines that read or write one cache file: where
                 \* each is in _read_cache / _write_cache, and its payload
    running,     \* the coroutine the event loop is running, or 0
    lock,        \* the holder of DBPediaService._cache_lock, or 0
    reads,       \* the last two reads of the file since it last changed
    call         \* the latest call of a knowledge-base function: its
                 \* arguments and value, or None

vars == << top_k, top_m, now, cache, pc, ctx, ranked, db_tasks,
           results, analyze, rank_exc, resp, calls, cache0, neg_at, neg0,
           rank_out, eval_a, eval_b, kb_source, co, running, lock, reads,
           call >>

Cfg == << top_k, top_m, kb_source >>
Procs == 1..NumProcs
IdleCo == [pc |-> "idle", payload |-> None]
\* The variables of the function-level specifications, which the service
\* run leaves alone.
Evals == << eval_a, eval_b, co, running, lock, reads, call >>
NoEvals ==
    /\ eval_a = None
    /\ eval_b = None
    /\ co = [p \in Procs |-> IdleCo]
    /\ running = 0
    /\ lock = 0
    /\ reads = << >>
    /\ call = None
Request == << ctx, ranked, results, analyze, rank_exc, resp, rank_out >>

Keys == { KeyOf(DbName(n)) : n \in RankNames }
FluKey == KeyOf(kb_list[1].name)

\* What an earlier run of the service, or anything else, may have left in
\* the cache file of one key: nothing, or an object without its
\* _fetched_at field.  (An unparsable file comes from a failed write.)
InitEntries == { Absent, Json(FALSE, 0, Matched(<<"s">>)) }

NoCalls == [lookup |-> 0, remote |-> 0, writes |-> 0]
NoContext == [age |-> 30, chronic_conditions |-> << >>]
NoRequest ==
    /\ ctx = NoContext
    /\ ranked = << >>
    /\ results = << >>
    /\ analyze = "none"
    /\ rank_exc = "none"
    /\ resp = None
    /\ rank_out = << >>

Init ==
    /\ \E cf \in Configs : top_k = cf[1] /\ top_m = cf[2]
    /\ now = StartTime
    /\ \E e \in InitEntries :
          cache = [k \in Keys |-> IF k = FluKey THEN e ELSE Absent]
    /\ pc = "startup"
    /\ NoRequest
    /\ db_tasks = << >>
    /\ calls = NoCalls
    /\ cache0 = cache
    /\ neg_at = [k \in Keys |-> -1]
    /\ neg0 = neg_at
    /\ kb_source \in {"present", "missing"}
    /\ NoEvals

Started(t) == t # None /\ t.pc # "new"
Finished(t) == t # None /\ t.pc \in {"done", "raised"}
NumTasks(tasks) == Cardinality({ i \in DOMAIN tasks : tasks[i] # None })
AllStarted ==
    \A j \in DOMAIN db_tasks : db_tasks[j] = None \/ Started(db_tasks[j])
\* Mutant: the gather returns when the first coroutine has finished
\* (a wait for the first completion instead of all).
AllFinished_first_completed ==
    \E j \in DOMAIN db_tasks : Finished(db_tasks[j])

\* asyncio.gather returns when every coroutine it was given has returned
\* or raised.
AllFinished ==
    \A j \in DOMAIN db_tasks : db_tasks[j] = None \/ Finished(db_tasks[j])

\* ----------------------------------------------------------------- actions
\* main.py is imported: cross_checker = CrossChecker(...) runs load_kb, and
\* its FileNotFoundError ends the import; the server never starts.
ImportFails ==
    /\ pc = "startup"
    /\ load_kb(kb_source).kind = "raise"
    /\ pc' = "crashed"
    /\ UNCHANGED << Cfg, Evals, now, cache, Request, db_tasks, calls, cache0,
                    neg_at, neg0 >>

\* prewarm_dbpedia, after the import: a lookup for the name of each of the
\* first 8 records of the knowledge base, gathered.
Prewarm ==
    /\ pc = "startup"
    /\ load_kb(kb_source).kind = "list"
    /\ pc' = "prewarm"
    /\ LET kb == load_kb(kb_source).records IN
          db_tasks' = [i \in 1..Min(Len(kb), 8) |-> NewTask(kb[i].name)]
    /\ calls' = [NoCalls EXCEPT !.lookup = NumTasks(db_tasks')]
    /\ cache0' = cache
    /\ neg0' = neg_at
    /\ UNCHANGED << Cfg, Evals, now, cache, Request, neg_at >>

\* prewarm_dbpedia returns when the gather does; what the lookups returned
\* or raised is dropped.  The service starts to take requests.
PrewarmDone ==
    /\ pc = "prewarm"
    /\ AllFinished
    /\ pc' = "idle"
    /\ db_tasks' = << >>
    /\ UNCHANGED << Cfg, Evals, now, cache, Request, calls, cache0, neg_at, neg0 >>

\* Seconds from the end of one piece of work to the next request: as long
\* as a cache entry stays fresh, or a second longer.
Elapsed == {cache_ttl, cache_ttl + 1}

\* triage, up to `await cross_checker.analyze_async(...)` and in it up to
\* `await asyncio.to_thread(self.nlp.rank, user_text)`.
Triage(d) ==
    /\ pc = "idle"
    /\ now' = now + d
    /\ pc' = "rank"
    /\ ctx' = NoContext
    /\ ranked' = << >>
    /\ db_tasks' = << >>
    /\ results' = << >>
    /\ analyze' = "none"
    /\ rank_exc' = "none"
    /\ resp' = None
    /\ rank_out' = << >>
    /\ calls' = NoCalls
    /\ cache0' = cache
    /\ neg0' = neg_at
    /\ UNCHANGED << Cfg, Evals, cache, neg_at >>

\* triage: empty text, or a red flag in it: the handler returns at once
\* with no conditions and never calls analyze_async.
TriageEarly(d, urgency) ==
    /\ pc = "idle"
    /\ now' = now + d
    /\ ranked' = << >>
    /\ db_tasks' = << >>
    /\ results' = << >>
    /\ analyze' = "none"
    /\ rank_exc' = "none"
    /\ resp' = [status |-> "ok", conditions |-> << >>, urgency |-> urgency]
    /\ rank_out' = << >>
    /\ calls' = NoCalls
    /\ cache0' = cache
    /\ neg0' = neg_at
    /\ pc' = "served"
    /\ UNCHANGED << Cfg, Evals, cache, ctx, neg_at >>

\* analyze_async from the return of the ranker call: truncation, the
\* coroutines, and `await asyncio.gather(...)` when there is one; with no
\* coroutine it runs to its return, and triage to its own.
RankReturns(out, c) ==
    /\ pc = "rank"
    /\ LET rk == Truncate(out, top_k)
           tasks == MakeTasks(rk, top_m)
       IN  /\ ranked' = rk
           /\ db_tasks' = tasks
           /\ calls' = [calls EXCEPT !.lookup = NumTasks(tasks)]
           /\ IF NumTasks(tasks) = 0
                THEN /\ ctx' = c
                     /\ results' = BuildResults(rk, tasks, c.age,
                                                c.chronic_conditions)
                     /\ analyze' = "returned"
                     /\ resp' = Response(results')
                     /\ pc' = "served"
                ELSE /\ c = NoContext
                     /\ pc' = "gather"
                     /\ UNCHANGED << ctx, results, analyze, resp >>
    /\ rank_out' = out
    /\ UNCHANGED << Cfg, Evals, now, cache, rank_exc, cache0, neg_at, neg0 >>

\* The ranker call raises: analyze_async has no handler around it, the
\* exception reaches triage.
RankRaises(kind, fallback_ok, fallback) ==
    /\ pc = "rank"
    /\ fallback_ok \/ fallback = << >>
    /\ rank_exc' = kind
    /\ analyze' = "raised"
    /\ resp' = TriageOnException(kind, fallback_ok, fallback)
    /\ pc' = "served"
    /\ UNCHANGED << Cfg, Evals, now, cache, ctx, ranked, db_tasks, results,
                    calls, cache0, neg_at, neg0, rank_out >>

\* str.replace(" ", "_")
Underscore(s) == [i \in 1..Len(s) |-> IF s[i] = " " THEN "_" ELSE s[i]]

\* lookup_abstract: the resource of the direct query.  quote() leaves
\* letters and "_" as they are, and the names here hold nothing else.
Resource(condition_name) ==
    <<"http://dbpedia.org/resource/">> \o Underscore(condition_name)

Gathering == pc \in {"prewarm", "gather"}

\* lookup_abstract from its start to the first HTTP request: the empty-name
\* return, the cache read and the return on a hit, else the direct query
\* is sent.  The event loop runs this first step of every coroutine the
\* gather scheduled, in order, before it handles any response.  A file
\* that does not exist is not opened.
LookupStart(i, io_ok) ==
    /\ Gathering
    /\ i \in DOMAIN db_tasks
    /\ db_tasks[i] # None
    /\ db_tasks[i].pc = "new"
    /\ \A j \in 1..(i - 1) : db_tasks[j] = None \/ Started(db_tasks[j])
    /\ LET t == db_tasks[i]
           key == KeyOf(t.name)
           cached == _read_cache(cache[key], now, io_ok)
       IN  /\ io_ok \/ (t.name # << >> /\ cache[key].kind # "absent")
           /\ IF t.name = << >>
                THEN /\ db_tasks' = [db_tasks EXCEPT ![i] =
                           [t EXCEPT !.pc = "done", !.result = NotMatched]]
                     /\ UNCHANGED calls
              ELSE IF cached = Raise
                THEN /\ db_tasks' = [db_tasks EXCEPT ![i] =
                           [t EXCEPT !.pc = "raised", !.io = io_ok]]
                     /\ UNCHANGED calls
              ELSE IF cached # None
                THEN /\ db_tasks' = [db_tasks EXCEPT ![i] =
                           [t EXCEPT !.pc = "done", !.io = io_ok,
                                     !.result = cached]]
                     /\ UNCHANGED calls
              ELSE /\ db_tasks' = [db_tasks EXCEPT ![i] =
                           [t EXCEPT !.pc = "direct", !.io = io_ok,
                                     !.calls = 1]]
                   /\ calls' = [calls EXCEPT !.remote = @ + 1]
    /\ UNCHANGED << Cfg, Evals, now, cache, pc, Request, cache0, neg_at, neg0 >>

\* lookup_abstract from the response to the direct query: a binding is
\* returned and cached; a response of another shape raises at
\* resp.get("results", {}).get("bindings", []); else the label query is sent.
DirectResponse(i, out, w) ==
    /\ Gathering
    /\ AllStarted
    /\ i \in DOMAIN db_tasks
    /\ db_tasks[i] # None
    /\ db_tasks[i].pc = "direct"
    /\ LET t == [db_tasks[i] EXCEPT !.failed = (out = "error"),
                                    !.outs = Append(@, out)]
           key == KeyOf(t.name)
           r == _sparql(out)
           result == Matched(Resource(t.name))
       IN  IF r = Raise \/ (r # None /\ r.kind = "malformed")
             THEN /\ db_tasks' = [db_tasks EXCEPT ![i] =
                        [t EXCEPT !.pc = "raised"]]
                  /\ w = "ok"
                  /\ UNCHANGED << cache, calls >>
           ELSE IF r # None /\ r.kind = "data"
             THEN /\ db_tasks' = [db_tasks EXCEPT ![i] =
                        [t EXCEPT !.pc = "done", !.result = result, !.wr = w]]
                  /\ cache' = _write_cache(cache, key, result, now, w)
                  /\ calls' = [calls EXCEPT !.writes = @ + 1]
           ELSE /\ db_tasks' = [db_tasks EXCEPT ![i] =
                        [t EXCEPT !.pc = "fallback", !.calls = 2]]
                /\ w = "ok"
                /\ calls' = [calls EXCEPT !.remote = @ + 1]
                /\ UNCHANGED cache
    /\ UNCHANGED << Cfg, Evals, now, pc, Request, cache0, neg_at, neg0 >>

\* lookup_abstract from the response to the label query to its return:
\* the first binding, or {"matched": False}; either is cached.
FallbackResponse(i, out, w) ==
    /\ Gathering
    /\ AllStarted
    /\ i \in DOMAIN db_tasks
    /\ db_tasks[i] # None
    /\ db_tasks[i].pc = "fallback"
    /\ LET t == [db_tasks[i] EXCEPT !.failed = (@ /\ out = "error"),
                                    !.outs = Append(@, out)]
           key == KeyOf(t.name)
           r == _sparql(out)
           result == IF r # None /\ r.kind = "data"
                       THEN Matched(<<"s">>) ELSE NotMatched
       IN  IF r = Raise \/ (r # None /\ r.kind = "malformed")
             THEN /\ db_tasks' = [db_tasks EXCEPT ![i] =
                        [t EXCEPT !.pc = "raised"]]
                  /\ w = "ok"
                  /\ UNCHANGED << cache, calls, neg_at >>
           ELSE /\ db_tasks' = [db_tasks EXCEPT ![i] =
                        [t EXCEPT !.pc = "done", !.result = result, !.wr = w]]
                /\ cache' = _write_cache(cache, key, result, now, w)
                /\ calls' = [calls EXCEPT !.writes = @ + 1]
                /\ neg_at' = IF result = NotMatched
                               THEN [neg_at EXCEPT ![key] = now]
                               ELSE neg_at
    /\ UNCHANGED << Cfg, Evals, now, pc, Request, cache0, neg0 >>

\* analyze_async from the return of gather to its own return, and triage
\* to its return (it sleeps 3 to 5 seconds before it answers).
Join(c) ==
    /\ pc = "gather"
    /\ AllFinished
    /\ ctx' = c
    /\ results' = BuildResults(ranked, db_tasks, c.age, c.chronic_conditions)
    /\ analyze' = "returned"
    /\ resp' = Response(results')
    /\ pc' = "served"
    /\ UNCHANGED << Cfg, Evals, now, cache, ranked, db_tasks, rank_exc,
                    calls, cache0, neg_at, neg0, rank_out >>

Next ==
    \/ ImportFails
    \/ Prewarm
    \/ PrewarmDone
    \/ \E d \in Elapsed : Triage(d)
    \/ \E d \in Elapsed, u \in {"routine", "emergency"} : TriageEarly(d, u)
    \/ \E out \in RankOutputs, c \in Contexts : RankReturns(out, c)
    \/ \E kind \in RankExceptions, ok \in BOOLEAN, fb \in RankOutputs :
          RankRaises(kind, ok, fb)
    \/ \E i \in 1..Len(db_tasks), io_ok \in BOOLEAN : LookupStart(i, io_ok)
    \/ \E i \in 1..Len(db_tasks), out \in RemoteOutcomes, w \in WriteOutcomes :
          DirectResponse(i, out, w)
    \/ \E i \in 1..Len(db_tasks), out \in RemoteOutcomes, w \in WriteOutcomes :
          FallbackResponse(i, out, w)
    \/ \E c \in Contexts : Join(c)

Spec == Init /\ [][Next]_vars

\* ------------------------------------------- _risk_score as a pure function
\* The arguments analyze_async can pass to _risk_score: a final_score of the
\* ranker (tenths, in [-1, 1]), the severity_score of the matched record or
\* the default 0.5 (tenths, in [0, 1]), an age parse_age_range can return,
\* and a list of chronic conditions.
FinalScores == {-10, -5, 0, 4, 10}
SeverityScores == {0, 5, 10}
Ages == {0, 30, 50, 51, 70, 999}
ChronicLists == { << >>, << "asthma" >> }

InitRisk ==
    /\ top_k = 10
    /\ top_m = 1
    /\ now = StartTime
    /\ cache = [k \in Keys |-> Absent]
    /\ pc = "startup"
    /\ NoRequest
    /\ db_tasks = << >>
    /\ calls = NoCalls
    /\ cache0 = cache
    /\ neg_at = [k \in Keys |-> -1]
    /\ neg0 = neg_at
    /\ kb_source = "present"
    /\ NoEvals

\* One call of _risk_score; the call before it is kept for comparison.
Score(f, s, a, c) ==
    /\ eval_a' = [final_score |-> f, severity_score |-> s, age |-> a,
                  chronic_conditions |-> c,
                  risk_score |-> _risk_score(f, s, a, c)]
    /\ eval_b' = eval_a
    /\ UNCHANGED << Cfg, now, cache, pc, Request, db_tasks, calls, cache0,
                    neg_at, neg0, co, running, lock, reads, call >>

NextRisk ==
    \E f \in FinalScores, s \in SeverityScores, a \in Ages, c \in ChronicLists :
        Score(f, s, a, c)

SpecRisk == InitRisk /\ [][NextRisk]_vars

\* ------------------------------------------ the cache file, by statement
\* _read_cache and _write_cache statement by statement, for the file of
\* one key, called by NumProcs coroutines of one event loop.  A coroutine
\* runs from one suspension to the next without interleaving; `running` is
\* the one that has the loop.  pc of a coroutine:
\*   "w_lock"    at `async with self._cache_lock`
\*   "w_open"    at `open(path, "w")`, which truncates the file
\*   "w_dump"    at `json.dump(...)` and the close of the file
\*   "w_unlock"  at the exit of the `async with` (also by an exception)
\*   "r_exists"  at `os.path.exists(path)`
\*   "r_load"    at `open`, `json.load` and the age test
CacheKey == FluKey
Payloads == { NotMatched, Matched(<<"s">>) }
\* The readings of time.time() the steps happen at: the start, and the two
\* sides of the expiry of an entry written at the start.
Instants == { StartTime, StartTime + cache_ttl, StartTime + cache_ttl + 1 }

\* Mutant: the file is opened by an awaited call that suspends.
SuspendsAt_async_open(stmt, locked) ==
    (stmt = "w_lock" /\ locked) \/ stmt = "w_open"

\* Whether the coroutine is suspended at a statement: only acquiring a
\* held lock suspends; open and json.dump are blocking calls, not awaits.
SuspendsAt(stmt, locked) == stmt = "w_lock" /\ locked

CanStep(p) == running = p \/ running = 0
AfterStep(p, stmt) == IF SuspendsAt(stmt, lock # 0) THEN 0 ELSE p

InitCache ==
    /\ top_k = 10
    /\ top_m = 1
    /\ now = StartTime
    /\ cache = [k \in Keys |-> Absent]
    /\ pc = "startup"
    /\ NoRequest
    /\ db_tasks = << >>
    /\ calls = NoCalls
    /\ cache0 = cache
    /\ neg_at = [k \in Keys |-> -1]
    /\ neg0 = neg_at
    /\ kb_source = "present"
    /\ NoEvals

CacheFrame ==
    UNCHANGED << Cfg, pc, Request, db_tasks, calls, cache0, neg_at, neg0,
                 eval_a, eval_b, call >>

\* lookup_abstract awaits _write_cache(key, payload) or _read_cache(key).
CallWrite(p, payload) ==
    /\ running = 0
    /\ co[p].pc = "idle"
    /\ co' = [co EXCEPT ![p] = [pc |-> "w_lock", payload |-> payload]]
    /\ running' = p
    /\ UNCHANGED << now, cache, lock, reads >>
    /\ CacheFrame

CallRead(p) ==
    /\ running = 0
    /\ co[p].pc = "idle"
    /\ co' = [co EXCEPT ![p] = [pc |-> "r_exists", payload |-> None]]
    /\ running' = p
    /\ UNCHANGED << now, cache, lock, reads >>
    /\ CacheFrame

\* async with self._cache_lock: take the lock, or wait for it.
WLock(p) ==
    /\ CanStep(p)
    /\ co[p].pc = "w_lock"
    /\ IF lock = 0
         THEN /\ lock' = p
              /\ co' = [co EXCEPT ![p].pc = "w_open"]
              /\ running' = p
         ELSE /\ running = p
              /\ running' = AfterStep(p, "w_lock")
              /\ UNCHANGED << lock, co >>
    /\ UNCHANGED << now, cache, reads >>
    /\ CacheFrame

\* open(path, "w"): the file is emptied, or open raises and it is not.
WOpen(p, ok) ==
    /\ CanStep(p)
    /\ co[p].pc = "w_open"
    /\ IF ok
         THEN /\ cache' = [cache EXCEPT ![CacheKey] = Corrupt]
              /\ co' = [co EXCEPT ![p].pc = "w_dump"]
              /\ reads' = << >>
         ELSE /\ co' = [co EXCEPT ![p].pc = "w_unlock"]
              /\ UNCHANGED << cache, reads >>
    /\ running' = AfterStep(p, "w_open")
    /\ UNCHANGED << now, lock >>
    /\ CacheFrame

\* json.dump({"_fetched_at": time.time(), "payload": payload}, f) and the
\* close: the object is in the file, or json.dump raises and a part is.
WDump(p, ok) ==
    /\ CanStep(p)
    /\ co[p].pc = "w_dump"
    /\ cache' = [cache EXCEPT ![CacheKey] =
                   IF ok THEN Json(TRUE, now, co[p].payload) ELSE Corrupt]
    /\ co' = [co EXCEPT ![p].pc = "w_unlock"]
    /\ reads' = << >>
    /\ running' = AfterStep(p, "w_dump")
    /\ UNCHANGED << now, lock >>
    /\ CacheFrame

\* The lock is released; `except Exception: pass`; _write_cache returns.
WUnlock(p) ==
    /\ CanStep(p)
    /\ co[p].pc = "w_unlock"
    /\ lock' = 0
    /\ co' = [co EXCEPT ![p] = IdleCo]
    /\ running' = 0
    /\ UNCHANGED << now, cache, reads >>
    /\ CacheFrame

Remember(r) ==
    IF Len(reads) < 2 THEN Append(reads, r) ELSE << reads[2], r >>

\* if not os.path.exists(path): return None
RExists(p) ==
    /\ CanStep(p)
    /\ co[p].pc = "r_exists"
    /\ IF cache[CacheKey].kind = "absent"
         THEN /\ co' = [co EXCEPT ![p] = IdleCo]
              /\ reads' = Remember([at |-> now, io |-> TRUE, value |-> None])
              /\ running' = 0
         ELSE /\ co' = [co EXCEPT ![p].pc = "r_load"]
              /\ running' = p
              /\ UNCHANGED reads
    /\ UNCHANGED << now, cache, lock >>
    /\ CacheFrame

\* The try block of _read_cache, and its return.
RLoad(p, io_ok) ==
    /\ CanStep(p)
    /\ co[p].pc = "r_load"
    /\ co' = [co EXCEPT ![p] = IdleCo]
    /\ reads' = Remember([at |-> now, io |-> io_ok,
                          value |-> _read_cache(cache[CacheKey], now, io_ok)])
    /\ running' = 0
    /\ UNCHANGED << now, cache, lock >>
    /\ CacheFrame

\* Time passes while no coroutine runs.
Tick(t) ==
    /\ running = 0
    /\ t > now
    /\ now' = t
    /\ UNCHANGED << cache, co, running, lock, reads >>
    /\ CacheFrame

NextCache ==
    \/ \E p \in Procs, payload \in Payloads : CallWrite(p, payload)
    \/ \E p \in Procs : CallRead(p)
    \/ \E p \in Procs : WLock(p)
    \/ \E p \in Procs, ok \in BOOLEAN : WOpen(p, ok)
    \/ \E p \in Procs, ok \in BOOLEAN : WDump(p, ok)
    \/ \E p \in Procs : WUnlock(p)
    \/ \E p \in Procs : RExists(p)
    \/ \E p \in Procs, io_ok \in BOOLEAN : RLoad(p, io_ok)
    \/ \E t \in Instants : Tick(t)

SpecCache == InitCache /\ [][NextCache]_vars

\* ------------------------------------- the knowledge-base helper functions
\* _missing_symptoms, _lookup_kb_by_nlp_name and _pick_followup as pure
\* functions: `call` holds the call made, its arguments and what it
\* returned.
MaxSymptoms == 3

\* Python's `a in b` for strings.
IsSubstring(a, b) ==
    \E i \in 0..(Len(b) - Len(a)) : SubSeq(b, i + 1, i + Len(a)) = a

\* CrossChecker._normalize: (text or "").lower()
_normalize(text) == Lower(text)

\* Mutant: the token is looked for as it is spelt.
_contains_token_as_spelt(haystack, token) ==
    IF token = << >> THEN FALSE ELSE IsSubstring(token, haystack)

\* CrossChecker._contains_token
_contains_token(haystack, token) ==
    IF token = << >> THEN FALSE ELSE IsSubstring(Lower(token), haystack)

\* CrossChecker._missing_symptoms, the loop from symptom i on.
RECURSIVE MissingFrom(_, _, _)
MissingFrom(text, symptoms, i) ==
    IF i > Len(symptoms) THEN << >>
    ELSE IF ~_contains_token(text, symptoms[i])
           THEN << symptoms[i] >> \o MissingFrom(text, symptoms, i + 1)
           ELSE MissingFrom(text, symptoms, i + 1)

_missing_symptoms(user_text, common_symptoms) ==
    MissingFrom(_normalize(user_text), common_symptoms, 1)

\* str.split(): the words of s between runs of whitespace, from position
\* i on, cur being the word begun.
RECURSIVE SplitFrom(_, _, _)
SplitFrom(s, i, cur) ==
    LET word == IF cur = << >> THEN << >> ELSE << cur >> IN
    IF i > Len(s) THEN word
    ELSE IF s[i] = " " THEN word \o SplitFrom(s, i + 1, << >>)
    ELSE SplitFrom(s, i + 1, Append(cur, s[i]))
Split(s) == SplitFrom(s, 1, << >>)

\* _pick_followup, the condition of the inner loop:
\* any(word in q.get("text","").lower()
\*     for word in m.lower().split() if len(word) > 3)
QuestionMatches(m, q) ==
    \E k \in DOMAIN Split(Lower(m)) :
        LET word == Split(Lower(m))[k] IN
        Len(word) > 3 /\ IsSubstring(word, Lower(q.text))

\* Mutant: the questions are the outer loop, the missing symptoms the inner.
RECURSIVE PickFrom_questions_first(_, _, _, _)
PickFrom_questions_first(missing, questions, i, j) ==
    IF j > Len(questions) THEN questions[1]
    ELSE IF i > Len(missing)
           THEN PickFrom_questions_first(missing, questions, 1, j + 1)
    ELSE IF QuestionMatches(missing[i], questions[j]) THEN questions[j]
    ELSE PickFrom_questions_first(missing, questions, i + 1, j)

\* _pick_followup, the loops `for m in missing: for q in questions:` from
\* missing[i] and questions[j] on, and the return after them.
RECURSIVE PickFrom(_, _, _, _)
PickFrom(missing, questions, i, j) ==
    IF i > Len(missing) THEN questions[1]
    ELSE IF j > Len(questions) THEN PickFrom(missing, questions, i + 1, 1)
    ELSE IF QuestionMatches(missing[i], questions[j]) THEN questions[j]
    ELSE PickFrom(missing, questions, i, j + 1)

\* CrossChecker._pick_followup
_pick_followup(missing, questions) ==
    IF questions = << >> THEN None
    ELSE IF missing = << >> THEN questions[1]
    ELSE PickFrom(missing, questions, 1, 1)

ListsUpTo(S, n) == UNION { [1..k -> S] : k \in 0..n }

\* User texts and common symptoms of a record.
UserTexts ==
    { <<"f", "e", "v", "e", "r", " ", "a", "n", "d", " ", "c", "o", "u", "g", "h">>,
      <<"F", "l", "u", ",", " ", "F", "E", "V", "e", "r">>,
      <<"a", " ", "c", "o", "u", "g", "h">>,
      << >> }
SymptomNames ==
    { <<"f", "e", "v", "e", "r">>,
      <<"s", "o", "r", "e", " ", "t", "h", "r", "o", "a", "t">>,
      <<"f", "a", "t", "i", "g", "u", "e">>,
      <<"C", "o", "u", "g", "h">>,
      <<"f", "l", "u">>,
      << >> }

\* Records a knowledge base can hold: that of kb_list, one that claims
\* the same key by its name, one with a blank name and a blank alias, and
\* one that claims the key by an alias.
KbRecords ==
    { kb_list[1],
      [name |-> <<" ", "F", "L", "U", " ">>, aliases |-> << >>, severity_score |-> 3],
      [name |-> <<" ", " ">>, aliases |-> << <<" ">> >>, severity_score |-> 5],
      [name |-> <<"C", "u", "r">>, aliases |-> << <<"f", "l", "u">>, << >> >>, severity_score |-> 9] }
MaxRecords == 2
\* Names to resolve.
NlpNames ==
    { <<"f", "l", "u">>, <<" ", "F", "L", "U", " ">>, <<"G", "r">>, <<"g", "r", " ">>, <<" ">>, << >>, <<"C", "U", "R">>, <<"f", "l">> }

\* follow_up_questions of a record.
Questions ==
    { [text |-> <<"a", " ", "C", "o", "u", "g", "h", "?">>],
      [text |-> <<"F", "e", "v", "e", "r", "?">>],
      [text |-> <<"s", "o", "r", "e", " ", "o", "r", " ", "f", "l", "u", "?">>],
      [text |-> <<"h", "o", "w", " ", "l", "o", "n", "g", "?">>] }
MaxQuestions == 2
\* The most missing symptoms _pick_followup is called with.
MaxMissing == 2

InitKb ==
    /\ top_k = 10
    /\ top_m = 1
    /\ now = StartTime
    /\ cache = [k \in Keys |-> Absent]
    /\ pc = "startup"
    /\ NoRequest
    /\ db_tasks = << >>
    /\ calls = NoCalls
    /\ cache0 = cache
    /\ neg_at = [k \in Keys |-> -1]
    /\ neg0 = neg_at
    /\ kb_source = "present"
    /\ NoEvals

KbFrame ==
    UNCHANGED << Cfg, now, cache, pc, Request, db_tasks, calls, cache0,
                 neg_at, neg0, eval_a, eval_b, co, running, lock, reads >>

MissingSymptoms(user_text, common_symptoms) ==
    /\ call' = [fn |-> "_missing_symptoms",
                user_text |-> user_text,
                common_symptoms |-> common_symptoms,
                result |-> _missing_symptoms(user_text, common_symptoms)]
    /\ KbFrame

Resolve(kb, nlp_name) ==
    /\ call' = [fn |-> "_lookup_kb_by_nlp_name",
                kb |-> kb,
                nlp_name |-> nlp_name,
                result |-> LookupIn(KbByKeyOf(kb), nlp_name)]
    /\ KbFrame

PickFollowup(missing, questions) ==
    /\ call' = [fn |-> "_pick_followup",
                missing |-> missing,
                questions |-> questions,
                result |-> _pick_followup(missing, questions)]
    /\ KbFrame

\* One call is made, with any of the arguments.
NextKb ==
    \/ /\ call = None
       /\ \E t \in UserTexts, l \in ListsUpTo(SymptomNames, MaxSymptoms) :
             MissingSymptoms(t, l)
    \/ /\ call = None
       /\ \E kb \in ListsUpTo(KbRecords, MaxRecords), n \in NlpNames :
             Resolve(kb, n)
    \/ /\ call = None
       /\ \E m \in ListsUpTo(SymptomNames, MaxMissing),
             q \in ListsUpTo(Questions, MaxQuestions) : PickFollowup(m, q)

SpecKb == InitKb /\ [][NextKb]_vars

\* ================================================================== claims
Served == pc = "served"
Returned == pc = "served" /\ analyze = "returned"

\* C1: analyze_async returns exactly min(N, top_k) entries for a ranker
\* output of N candidates, and entry i carries the name of the i-th ranked
\* candidate, whatever the risk scores, KB matches and lookup outcomes are.
C1_OrderAndLength ==
    Returned =>
        /\ Len(results) = Min(Len(rank_out), top_k)
        /\ \A i \in 1..Len(results) : results[i].name = rank_out[i].name

\* C1 witness: the ranker returned more candidates than top_k, a lookup
\* ran, and analyze_async returned.
C1_Witness ==
    /\ Returned
    /\ Len(rank_out) > top_k
    /\ Len(results) = top_k
    /\ results[1].dbpedia # None

\* The candidates the claim C3 calls selected: position below top_m (from
\* 0) and final_score at or above the threshold.
Eligible(i) ==
    i - 1 < top_m /\ ranked[i].final_score >= dbpedia_min_score

InRequest == pc \in {"rank", "gather", "served"}

\* C2: when two candidates are selected and the lookup of one raises,
\* analyze_async returns normally, the failed candidate's lookup field is
\* {matched: False} and the other's is exactly what its lookup returned.
C2_FaultIsolation ==
    (pc = "served" /\ NumTasks(db_tasks) > 0) =>
        /\ analyze = "returned"
        /\ \A i \in DOMAIN db_tasks :
              db_tasks[i] # None =>
                 /\ db_tasks[i].pc = "raised" =>
                       results[i].dbpedia = NotMatched
                 /\ db_tasks[i].pc = "done" =>
                       results[i].dbpedia = db_tasks[i].result

\* C2 witness: two lookups ran, one raised and the other returned a match,
\* which its candidate carries.
C2_Witness ==
    /\ Returned
    /\ Len(db_tasks) = 2
    /\ \E i, j \in 1..2 :
          /\ db_tasks[i] # None /\ db_tasks[j] # None
          /\ db_tasks[i].pc = "raised"
          /\ db_tasks[j].pc = "done"
          /\ db_tasks[j].result # NotMatched
          /\ results[i].dbpedia = NotMatched
          /\ results[j].dbpedia = db_tasks[j].result

\* C3: a candidate below the threshold, or at a position at or beyond
\* top_m, causes no lookup call, no remote call and no cache write during
\* analyze_async, and its lookup field in the output is None: lookups are
\* made for the other candidates only, at most two remote calls and one
\* write each, and only their cache keys change.
C3_NoLookupForUnselected ==
    InRequest =>
        LET sel == { i \in DOMAIN ranked : Eligible(i) } IN
        /\ \A i \in DOMAIN db_tasks : i \notin sel => db_tasks[i] = None
        /\ Returned =>
              \A i \in DOMAIN results : i \notin sel => results[i].dbpedia = None
        /\ calls.lookup <= Cardinality(sel)
        /\ calls.remote <= 2 * Cardinality(sel)
        /\ calls.writes <= Cardinality(sel)
        /\ \A k \in Keys :
              cache[k] # cache0[k] =>
                 \E i \in sel : KeyOf(DbName(ranked[i].name)) = k

\* C3 witness: the second candidate has a score above the threshold but
\* sits at position top_m, the first was looked up remotely with a cache
\* write, and the second carries None.
C3_Witness ==
    /\ Returned
    /\ top_m = 1
    /\ Len(ranked) = 2
    /\ ranked[2].final_score >= dbpedia_min_score
    /\ calls.remote > 0
    /\ calls.writes > 0
    /\ results[1].dbpedia # None
    /\ results[2].dbpedia = None

\* The lookups that have read the cache: started, for a non-empty name.
Readers ==
    { i \in DOMAIN db_tasks :
        Started(db_tasks[i]) /\ db_tasks[i].name # << >> }
\* The cache file lookup i found (no write lands between the start of the
\* gather and the reads: every coroutine runs its first step first).
Found(i) == cache0[KeyOf(db_tasks[i].name)]
\* A file _write_cache has written in full.
Written(e) == e.kind = "json" /\ e.has_ts /\ e.payload # None

C6_ReadNeverRaises ==
    /\ \A i \in Readers :
          (\/ Found(i).kind \in {"absent", "corrupt"}
           \/ ~db_tasks[i].io
           \/ (Found(i).kind = "json" /\ ~Found(i).has_ts)
           \/ (Found(i).kind = "json"
                 /\ now - Found(i).fetched_at > cache_ttl))
          => db_tasks[i].calls >= 1
    /\ \A i \in DOMAIN db_tasks :
          (db_tasks[i] # None /\ db_tasks[i].calls = 0) =>
              db_tasks[i].pc # "raised"
    /\ (calls.writes = 0 /\ (Gathering \/ InRequest)) => cache = cache0

\* C6 witness: lookups have read an unparsable file, and a stale entry
\* or a file they could not open, went on to query, and the files are as
\* they were.
C6_Witness ==
    /\ pc = "gather"
    /\ calls.writes = 0
    /\ cache = cache0
    /\ \E i, j \in Readers :
          /\ i # j
          /\ Found(i).kind = "corrupt"
          /\ db_tasks[i].calls >= 1
          /\ ~db_tasks[j].io
          /\ db_tasks[j].calls >= 1

EndedNegative(t) ==
    t # None /\ t.pc = "done" /\ t.calls = 2 /\ t.result = NotMatched

\* C5 as stated: when a lookup for K ends {matched: False} after its
\* queries, the result is persisted under K (it is in the cache unless
\* another lookup of the same gather shares the key), and every later
\* lookup for K within the TTL returns {matched: False} from the cache
\* without a remote call.  The code does not guarantee it.
C5_Original ==
    /\ \A i \in DOMAIN db_tasks :
          (/\ EndedNegative(db_tasks[i])
           /\ \A j \in DOMAIN db_tasks \ {i} :
                 db_tasks[j] = None
                   \/ KeyOf(db_tasks[j].name) # KeyOf(db_tasks[i].name))
          => cache[KeyOf(db_tasks[i].name)] = Json(TRUE, now, NotMatched)
    /\ \A i \in Readers :
          LET t0 == neg0[KeyOf(db_tasks[i].name)] IN
          (InRequest /\ t0 >= 0 /\ now - t0 <= cache_ttl) =>
              /\ db_tasks[i].pc = "done"
              /\ db_tasks[i].calls = 0
              /\ db_tasks[i].result = NotMatched

\* The step in which lookup i returns {matched: False} after the label
\* query, its cache write having succeeded.
EndsNegativeWritten(i) ==
    /\ db_tasks[i] # None
    /\ db_tasks[i].pc = "fallback"
    /\ db_tasks'[i].pc = "done"
    /\ db_tasks'[i].result = NotMatched
    /\ db_tasks'[i].wr = "ok"

\* The step in which lookup i reads, from a file it can open, a fresh
\* entry holding {matched: False}.
ReadsFreshNegative(i) ==
    /\ db_tasks[i] # None
    /\ db_tasks[i].pc = "new"
    /\ db_tasks[i].name # << >>
    /\ db_tasks'[i].pc # "new"
    /\ db_tasks'[i].io
    /\ LET e == cache[KeyOf(db_tasks[i].name)] IN
          /\ Written(e)
          /\ e.payload = NotMatched
          /\ now - e.fetched_at <= cache_ttl

\* C5, amended: a lookup for K that ends {matched: False} after its
\* queries writes {matched: False} with the current time under K whenever
\* its cache write succeeds, and every lookup for K that reads a fresh
\* {matched: False} entry returns it without a remote call or a write.
C5_NegativeCached ==
    [][\A i \in DOMAIN db_tasks \cap DOMAIN db_tasks' :
          /\ EndsNegativeWritten(i) =>
                cache'[KeyOf(db_tasks[i].name)] = Json(TRUE, now, NotMatched)
          /\ ReadsFreshNegative(i) =>
                /\ db_tasks'[i].pc = "done"
                /\ db_tasks'[i].result = NotMatched
                /\ db_tasks'[i].calls = 0
                /\ calls' = calls
                /\ cache' = cache]_vars

\* C5 witness: the pre-warm lookup ended {matched: False} and wrote it; the
\* request's lookup for the same key, ttl seconds later, returned
\* {matched: False} with no remote call.
C5_Witness ==
    /\ Returned
    /\ calls.remote = 0
    /\ \E i \in Readers :
          LET t0 == neg0[KeyOf(db_tasks[i].name)] IN
          /\ t0 >= 0
          /\ now - t0 = cache_ttl
          /\ Found(i) = Json(TRUE, t0, NotMatched)
          /\ db_tasks[i].pc = "done"
          /\ db_tasks[i].calls = 0
          /\ results[i].dbpedia = NotMatched

\* C7 as stated: every risk_score in every result of analyze_async lies in
\* [0, 1] (0..1000 in thousandths).  The code has no lower clamp.
C7_RiskInUnitInterval ==
    Returned =>
        \A i \in DOMAIN results :
            results[i].risk_score >= 0 /\ results[i].risk_score <= 1000

Evaluated == eval_a # None /\ eval_b # None
SameBut(field) ==
    \A g \in {"final_score", "severity_score", "age", "chronic_conditions"} \ {field} :
        eval_a[g] = eval_b[g]

\* C8 as stated: the risk score is non-decreasing in final_score, in
\* severity_score and in age above 50, and the same for any two ages at or
\* below 50, the other arguments being equal.  The code does not
\* guarantee it.
C8_Monotone ==
    Evaluated =>
        /\ (SameBut("final_score")
              /\ eval_b.final_score <= eval_a.final_score)
           => eval_b.risk_score <= eval_a.risk_score
        /\ (SameBut("severity_score")
              /\ eval_b.severity_score <= eval_a.severity_score)
           => eval_b.risk_score <= eval_a.risk_score
        /\ (SameBut("age") /\ 50 < eval_b.age /\ eval_b.age <= eval_a.age)
           => eval_b.risk_score <= eval_a.risk_score
        /\ (SameBut("age") /\ eval_b.age <= 50 /\ eval_a.age <= 50)
           => eval_b.risk_score = eval_a.risk_score

\* C9 as stated: when the ranker call fails, analyze_async does not raise
\* to its caller but returns an empty or reduced list.  The code raises.
C9_RankerFailureDegrades ==
    (Served /\ rank_exc # "none") =>
        /\ analyze = "returned"
        /\ Len(results) <= Len(rank_out)
        /\ resp.status = "ok"

\* C11: analyze_async produces no output entry before every lookup it
\* issued has returned or raised: while the gather is pending there is no
\* result, and once there are results every issued lookup has finished.
C11_JoinBeforeOutput ==
    /\ pc = "gather" => (results = << >> /\ analyze = "none" /\ resp = None)
    /\ (InRequest /\ (results # << >> \/ analyze = "returned")) =>
          \A i \in DOMAIN db_tasks :
              db_tasks[i] = None \/ db_tasks[i].pc \in {"done", "raised"}

\* C11 witness: two lookups were issued, both went to the remote and
\* finished, and analyze_async returned two entries.
C11_Witness ==
    /\ Returned
    /\ Len(results) = 2
    /\ \A i \in 1..2 :
          /\ db_tasks[i] # None
          /\ db_tasks[i].calls >= 1
          /\ db_tasks[i].pc \in {"done", "raised"}

\* The lookups of the request that wait for a response.
InFlight ==
    { i \in DOMAIN db_tasks :
        db_tasks[i] # None /\ db_tasks[i].pc \in {"direct", "fallback"} }

\* C12: in one analyze_async request the number of lookups issued never
\* exceeds top_m, whatever the ranked candidates, top_k and the scores, so
\* at most top_m lookups are in flight at any time.
C12_AtMostTopM ==
    InRequest =>
        /\ NumTasks(db_tasks) <= top_m
        /\ calls.lookup <= top_m
        /\ Cardinality(InFlight) <= top_m

\* C12 witness: more candidates than top_m are at or above the threshold,
\* and exactly top_m lookups are in flight.
C12_Witness ==
    /\ pc = "gather"
    /\ Cardinality({ i \in DOMAIN ranked :
                       ranked[i].final_score >= dbpedia_min_score }) > top_m
    /\ Cardinality(InFlight) = top_m

\* What the remote gives for a name, from the answers to the queries: the
\* resource of the direct query when it has a binding, else the first
\* binding of the label query, else {matched: False}.
RemoteResult(name, outs) ==
    IF Len(outs) >= 1 /\ outs[1] = "data" THEN Matched(Resource(name))
    ELSE IF Len(outs) >= 2 /\ outs[2] = "data" THEN Matched(<<"s">>)
    ELSE NotMatched

\* C13: the result of lookup_abstract does not depend on the cache being
\* usable: a read that fails is a miss, the lookup returns what the remote
\* queries give whether or not the write succeeds, and it raises only for
\* a remote response of the wrong shape, never for a cache error.
C13_CacheUnusable ==
    \A i \in DOMAIN db_tasks :
        db_tasks[i] # None =>
            LET t == db_tasks[i] IN
            /\ (t.pc # "new" /\ ~t.io) => t.calls >= 1
            /\ (t.pc = "done" /\ t.calls >= 1) =>
                  t.result = RemoteResult(t.name, t.outs)
            /\ t.pc = "raised" =>
                  (t.outs # << >> /\ t.outs[Len(t.outs)] = "malformed")

\* C13 witness: a lookup could not read its cache file and could not write
\* it, and returned the match the label query gave; the candidate
\* carries it.
C13_Witness ==
    /\ Returned
    /\ \E i \in DOMAIN db_tasks :
          /\ db_tasks[i] # None
          /\ ~db_tasks[i].io
          /\ db_tasks[i].wr \in {"open_failed", "dump_failed"}
          /\ db_tasks[i].outs = << "error", "data" >>
          /\ db_tasks[i].result = Matched(<<"s">>)
          /\ results[i].dbpedia = Matched(<<"s">>)

\* --------------------------------------------------------------------- C14
InWrite(p) == co[p].pc \in {"w_open", "w_dump", "w_unlock"}
InRead(p) == co[p].pc \in {"r_exists", "r_load"}

\* C14: cache writes are serialised, and no read runs against a file that
\* a write has emptied and not yet filled.  At most one coroutine is
\* between taking the lock and releasing it, and it is the holder of the
\* lock; while a coroutine is between open(path, "w") and the end of
\* json.dump no other coroutine is in _read_cache or in _write_cache past
\* the lock; and what a read returns is none or a whole payload.
C14_SerializedWrites ==
    /\ \A p \in Procs : InWrite(p) => lock = p
    /\ \A p, q \in Procs : (InWrite(p) /\ InWrite(q)) => p = q
    /\ \A p, q \in Procs :
          (co[p].pc = "w_dump" /\ q # p) => (~InRead(q) /\ ~InWrite(q))
    /\ \A i \in DOMAIN reads : reads[i].value \in Payloads \cup {None}

\* A coroutine holds the lock and has emptied the file, some time after
\* the start, and has not yet written the payload it was called with.
C14_Witness ==
    /\ \E p \in Procs :
          /\ co[p].pc = "w_dump"
          /\ lock = p
          /\ co[p].payload = Matched(<<"s">>)
    /\ cache[CacheKey] = Corrupt
    /\ now > StartTime

\* --------------------------------------------------------------------- C15
\* `reads` holds the last two reads of the key since its file last changed.
TwoReads == Len(reads) = 2
\* The age _read_cache computes at time t for the file as it is.
AgeAt(t) ==
    IF cache[CacheKey].kind = "json"
      THEN t - (IF cache[CacheKey].has_ts THEN cache[CacheKey].fetched_at
                ELSE 0)
      ELSE 0

\* C15 as stated: two successive reads of a key with no write in between
\* return the same result.
C15_Original == TwoReads => reads[1].value = reads[2].value

\* C15, amended: two successive reads of a key with no write in between
\* return the same result when both can open the file or neither can, and
\* the entry does not pass the age cache_ttl between them.
C15_SuccessiveReads ==
    ( /\ TwoReads
      /\ reads[1].io = reads[2].io
      /\ (AgeAt(reads[1].at) > cache_ttl) = (AgeAt(reads[2].at) > cache_ttl) )
    => reads[1].value = reads[2].value

\* Two reads cache_ttl seconds apart with no write between them, both of
\* which return the payload of the entry.
C15_Witness ==
    /\ TwoReads
    /\ reads[1].io /\ reads[2].io
    /\ reads[2].at = reads[1].at + cache_ttl
    /\ reads[1].value = Matched(<<"s">>)
    /\ reads[2].value = Matched(<<"s">>)

\* --------------------------------------------------------------------- C16
\* C16 as stated: when the knowledge base could not be loaded at startup
\* there is no fatal error and requests are still answered.
C16_Original == kb_source = "missing" => pc # "crashed"

\* C16, amended: when no knowledge-base file exists, constructing the
\* cross-checker fails while the service module is imported: the service
\* never takes a request, makes no lookup and gives no response.
C16_StartupFatal ==
    kb_source = "missing" =>
        /\ pc \in {"startup", "crashed"}
        /\ ~InRequest
        /\ resp = None /\ results = << >> /\ analyze = "none"
        /\ db_tasks = << >> /\ calls = NoCalls

\* The import has failed for want of a knowledge base.
C16_Witness == kb_source = "missing" /\ pc = "crashed"

\* --------------------------------------------------------------------- C17
Called(fn) == call # None /\ call.fn = fn
\* The subsequence of the symptoms that are not a substring of the text,
\* both taken in lower case.
NotInText(user_text, common_symptoms) ==
    SelectSeq(common_symptoms,
              LAMBDA sym : ~IsSubstring(Lower(sym), Lower(user_text)))

\* C17 as stated: missing_symptoms is the subsequence, in the record's
\* order, of the common symptoms that do not occur as a case-insensitive
\* substring of the user text.
C17_Original ==
    Called("_missing_symptoms") =>
        call.result = NotInText(call.user_text, call.common_symptoms)

\* C17, amended: missing_symptoms is the subsequence, in the record's
\* order, of the common symptoms that are empty or do not occur as a
\* case-insensitive substring of the user text.
C17_MissingSymptoms ==
    Called("_missing_symptoms") =>
        call.result =
            SelectSeq(call.common_symptoms,
                      LAMBDA sym : sym = << >> \/
                          ~IsSubstring(Lower(sym), Lower(call.user_text)))

\* The example of the specification.
C17_Witness ==
    /\ Called("_missing_symptoms")
    /\ call.user_text = <<"f", "e", "v", "e", "r", " ", "a", "n", "d", " ", "c", "o", "u", "g", "h">>
    /\ call.common_symptoms = << <<"f", "e", "v", "e", "r">>, <<"s", "o", "r", "e", " ", "t", "h", "r", "o", "a", "t">>, <<"f", "a", "t", "i", "g", "u", "e">> >>
    /\ call.result = << <<"s", "o", "r", "e", " ", "t", "h", "r", "o", "a", "t">>, <<"f", "a", "t", "i", "g", "u", "e">> >>

\* --------------------------------------------------------------------- C18
\* The records of kb of which the name or an alias, trimmed and in lower
\* case, is key.
Claimants(kb, key) ==
    { i \in DOMAIN kb :
        \/ Lower(Strip(kb[i].name)) = key
        \/ \E j \in DOMAIN kb[i].aliases : Lower(Strip(kb[i].aliases[j])) = key }

\* C18: resolve(name) returns none for an empty or whitespace-only name;
\* otherwise it returns a record exactly when the name, trimmed and in
\* lower case, is the trimmed lower-case name or alias of a record, and
\* then the last such record of the knowledge base.
C18_Resolve ==
    Called("_lookup_kb_by_nlp_name") =>
        LET key == Lower(Strip(call.nlp_name))
            claim == Claimants(call.kb, key)
        IN  IF key = << >> \/ claim = {} THEN call.result = None
            ELSE call.result =
                   call.kb[CHOOSE i \in claim : \A j \in claim : j <= i]

\* --------------------------------------------------------------------- C19
\* The questions that match some missing symptom, and the missing
\* symptoms that match some question, by their positions.
MatchedQuestions(missing, questions) ==
    { j \in DOMAIN questions :
        \E i \in DOMAIN missing : QuestionMatches(missing[i], questions[j]) }
MatchedMissing(missing, questions) ==
    { i \in DOMAIN missing :
        \E j \in DOMAIN questions : QuestionMatches(missing[i], questions[j]) }
Least(S) == CHOOSE n \in S : \A k \in S : n <= k

\* C19 as stated: none without questions, the first question without
\* missing symptoms, otherwise the first question in question order that
\* matches any missing symptom, and the first question when none matches.
C19_Original ==
    Called("_pick_followup") =>
        LET q == call.questions
            js == MatchedQuestions(call.missing, q)
        IN  call.result =
              IF q = << >> THEN None
              ELSE IF call.missing = << >> \/ js = {} THEN q[1]
              ELSE q[Least(js)]

\* C19, amended: none without questions, the first question without
\* missing symptoms, otherwise the first question in question order that
\* matches the first missing symptom that any question matches, and the
\* first question when none matches.
C19_PickFollowup ==
    Called("_pick_followup") =>
        LET q == call.questions
            is == MatchedMissing(call.missing, q)
        IN  call.result =
              IF q = << >> THEN None
              ELSE IF call.missing = << >> \/ is = {} THEN q[1]
              ELSE q[Least({ j \in DOMAIN q :
                        QuestionMatches(call.missing[Least(is)], q[j]) })]

\* The first question matches only the second missing symptom and the
\* second question only the first: the second question is chosen.
C19_Witness ==
    /\ Called("_pick_followup")
    /\ call.missing = << <<"f", "e", "v", "e", "r">>, <<"C", "o", "u", "g", "h">> >>
    /\ call.questions = << [text |-> <<"a", " ", "C", "o", "u", "g", "h", "?">>], [text |-> <<"F", "e", "v", "e", "r", "?">>] >>
    /\ call.result = [text |-> <<"F", "e", "v", "e", "r", "?">>]

\* --------------------------------------------------------------------- C20
\* The lookups that went to the remote service.
Missed(t) == t # None /\ t.calls >= 1

ReadsFresh(i) ==
    /\ db_tasks[i] # None
    /\ db_tasks[i].pc = "new"
    /\ db_tasks[i].name # << >>
    /\ db_tasks'[i].pc # "new"
    /\ db_tasks'[i].io
    /\ LET e == cache[KeyOf(db_tasks[i].name)] IN
          Written(e) /\ now - e.fetched_at <= cache_ttl

\* The steps in which lookup i, having missed, returns or raises.
ReturnsFetched(i) ==
    /\ db_tasks[i] # None
    /\ db_tasks[i].pc \in {"direct", "fallback"}
    /\ db_tasks'[i].pc = "done"
RaisesFetching(i) ==
    /\ db_tasks[i] # None
    /\ db_tasks[i].pc \in {"direct", "fallback"}
    /\ db_tasks'[i].pc = "raised"

\* The step in which lookup i makes its key and reads the cache.
StartsLookup(i) ==
    /\ db_tasks[i] # None
    /\ db_tasks[i].pc = "new"
    /\ db_tasks[i].name # << >>
    /\ db_tasks'[i].pc # "new"

\* What a step does to lookup i (see C20, amended).
C20_Step ==
    \A i \in DOMAIN db_tasks \cap DOMAIN db_tasks' :
         LET key == KeyOf(db_tasks[i].name) IN
         /\ StartsLookup(i) =>
               \A other \in NlpNames \cup RankNames :
                   (Lower(Strip(other)) = Lower(Strip(db_tasks[i].name)))
                     = (KeyOf(other) = key)
         /\ ReadsFresh(i) =>
               /\ db_tasks'[i].pc = "done"
               /\ db_tasks'[i].result = cache[key].payload
               /\ db_tasks'[i].calls = 0
               /\ db_tasks'[i].wr = "none"
               /\ calls' = calls
               /\ cache' = cache
         /\ ReturnsFetched(i) =>
               /\ calls'.writes = calls.writes + 1
               /\ calls'.remote = calls.remote
               /\ db_tasks'[i].wr \in WriteOutcomes
               /\ cache' =
                    [cache EXCEPT ![key] =
                       CASE db_tasks'[i].wr = "ok" ->
                              Json(TRUE, now, db_tasks'[i].result)
                         [] db_tasks'[i].wr = "open_failed" -> @
                         [] db_tasks'[i].wr = "dump_failed" -> Corrupt]
         /\ RaisesFetching(i) =>
               /\ calls' = calls
               /\ cache' = cache
               /\ db_tasks'[i].wr = "none"

NoResult == {"empty", "error"}

C22_OwnLookup ==
    Returned =>
        \A i \in DOMAIN results :
            LET t == db_tasks[i] IN
            IF t = None THEN results[i].dbpedia = None
            ELSE /\ t.name = DbName(results[i].name)
                 /\ results[i].dbpedia =
                      IF t.pc = "raised" THEN NotMatched
                      ELSE IF Missed(t) THEN RemoteResult(t.name, t.outs)
                      ELSE IF t.name = << >> THEN NotMatched
                      ELSE Found(i).payload

\* Two lookups were issued, for different names, and got different
\* answers; each entry carries the answer to its own.
C22_Witness ==
    /\ Returned
    /\ Len(results) >= 2
    /\ db_tasks[1] # None /\ db_tasks[2] # None
    /\ db_tasks[1].name # db_tasks[2].name
    /\ db_tasks[1].outs = << "empty", "empty" >>
    /\ db_tasks[2].outs = << "data" >>
    /\ results[1].dbpedia = NotMatched
    /\ results[2].dbpedia = Matched(Resource(db_tasks[2].name))

\* --------------------------------------------------------------------- C23
\* Two lookups of one gather for the same key that both found no fresh
\* entry and have both ended.
SameKeyPairs ==
    { p \in (DOMAIN db_tasks) \X (DOMAIN db_tasks) :
        /\ p[1] < p[2]
        /\ db_tasks[p[1]] # None /\ db_tasks[p[2]] # None
        /\ KeyOf(db_tasks[p[1]].name) = KeyOf(db_tasks[p[2]].name)
        /\ Finished(db_tasks[p[1]]) /\ Finished(db_tasks[p[2]])
        /\ Missed(db_tasks[p[1]]) /\ Missed(db_tasks[p[2]]) }

====
